---- MODULE Spec2Model ----
(***************************************************************************)
(* Access-control and event-fanout core of the collaboration portal:       *)
(* projects/permissions.py (role resolver), projects/signals.py (fanout),  *)
(* projects/models.py (tables, Task.clean), projects/forms.py and          *)
(* projects/views.py (the request handlers that mutate the tables).        *)
(*                                                                         *)
(* Tables are sets of rows keyed by an auto-increment pk.  Text (usernames,*)
(* comment bodies, notification messages) is a sequence of one-character   *)
(* strings, so that re.findall and message__contains are computed.         *)
(***************************************************************************)
EXTENDS Integers, Sequences, FiniteSets, TLC

VARIABLES
    users,          \* auth_user rows (pk = username string)
    projects,       \* Project rows: pk -> [owner, status]
    memberships,    \* ProjectMembership rows: [project, user, role]
    tasks,          \* Task rows: pk -> [project, created_by, assignees]
    comments,       \* Comment rows: [id, user, text, project, task]
    notifications,  \* Notification rows
    activities,     \* Activity rows
    nextId,         \* auto-increment counters, one per table
    last,           \* outcome of the last operation (what the caller sees)
    files,          \* File rows: [id, uploaded_by, project, task]
    pending         \* requests between form.is_valid() and their write: session -> request

vars == <<users, projects, memberships, tasks, comments, notifications,
          activities, nextId, last, pending, files>>

-----------------------------------------------------------------------------
(* Bounds of the model *)

\* rows ever inserted, per table
MaxProjects == 2
MaxTasks == 2
MaxComments == 2
MaxFiles == 1
\* notifications per recipient, per notification_type
MaxMemberAdded == 1
MaxTaskAssigned == 1
MaxMentions == 2
\* characters of a comment text drawn from TextAlphabet
MaxTextLen == 6

-----------------------------------------------------------------------------
(* Values *)

NoUser == "NULL"
NoId == 0
MAX_TASK_ASSIGNEES == 5

UserOrder == <<"alice", "bob", "charlie", "dave", "erin", "frank", "grace", "bobby">>

Username(u) ==
    CASE u = "alice"   -> <<"a","l","i","c","e">>
      [] u = "bob"     -> <<"b","o","b">>
      [] u = "charlie" -> <<"c","h","a","r","l","i","e">>
      [] u = "dave"    -> <<"d","a","v","e">>
      [] u = "erin"    -> <<"e","r","i","n">>
      [] u = "frank"   -> <<"f","r","a","n","k">>
      [] u = "grace"   -> <<"g","r","a","c","e">>
      [] u = "bobby"   -> <<"b","o","b","b","y">>

ROLE_CHOICES == <<"owner", "editor", "viewer">>

Roles == {ROLE_CHOICES[i] : i \in 1..Len(ROLE_CHOICES)}

get_role_display(role) ==
    CASE role = "owner"  -> <<"O","w","n","e","r">>
      [] role = "editor" -> <<"E","d","i","t","o","r">>
      [] role = "viewer" -> <<"V","i","e","w","e","r">>

Digit(n) == <<"0","1","2","3","4","5","6","7","8","9">>[n + 1]

ProjectName(p) == <<"P", Digit(p)>>

TaskTitle(t) == <<"T", Digit(t)>>

-----------------------------------------------------------------------------
(* Text *)

RECURSIVE IsPrefixAt(_, _, _)
IsPrefixAt(needle, hay, i) ==
    \/ needle = <<>>
    \/ /\ i <= Len(hay)
       /\ hay[i] = Head(needle)
       /\ IsPrefixAt(Tail(needle), hay, i + 1)

\* message__contains: case-sensitive substring test
Contains(hay, needle) ==
    \E i \in 1..(Len(hay) + 1) : IsPrefixAt(needle, hay, i)

\* \w of the re module, over the characters the model's texts use
WordChars ==
    {"a","b","c","d","e","f","g","h","i","j","k","l","m","n","o","p","q","r",
     "s","t","u","v","w","x","y","z","H","0","1","2","_"}

\* end of the maximal run of \w that starts at position i (i - 1 when empty)
RECURSIVE WordRunEnd(_, _)
WordRunEnd(text, i) ==
    IF i <= Len(text) /\ text[i] \in WordChars
    THEN WordRunEnd(text, i + 1)
    ELSE i - 1

\* re.findall(r'@(\w+)', text) from position i: leftmost, greedy, non-overlapping
RECURSIVE FindAllFrom(_, _)
FindAllFrom(text, i) ==
    IF i > Len(text) THEN <<>>
    ELSE IF text[i] = "@" /\ WordRunEnd(text, i + 1) >= i + 1
         THEN <<SubSeq(text, i + 1, WordRunEnd(text, i + 1))>>
                  \o FindAllFrom(text, WordRunEnd(text, i + 1) + 1)
         ELSE FindAllFrom(text, i + 1)

\* re.search in place of re.findall: the first token only
FindAllMentions_FirstOnly(text) ==
    IF FindAllFrom(text, 1) = <<>> THEN <<>> ELSE <<Head(FindAllFrom(text, 1))>>

FindAllMentions(text) == FindAllFrom(text, 1)

SeqRange(s) == {s[i] : i \in 1..Len(s)}

\* the orders in which a for loop may visit a Python set of strings
Orders(S) ==
    {o \in [1..Cardinality(S) -> S] : \A i, j \in 1..Cardinality(S) : i # j => o[i] # o[j]}

-----------------------------------------------------------------------------
(* Role resolver: projects/permissions.py *)

MembershipRows(user, project) ==
    {m \in memberships : m.project = project /\ m.user = user}

get_user_role(user, project) ==
    IF MembershipRows(user, project) # {}
    THEN (CHOOSE m \in MembershipRows(user, project) : TRUE).role
    ELSE "none"

\* ownership read from the membership role instead of Project.owner
is_project_owner_ByRole(user, project) == get_user_role(user, project) = "owner"

is_project_owner(user, project) == projects[project].owner = user

is_project_member(user, project) == MembershipRows(user, project) # {}

has_project_view_access(user, project) == is_project_member(user, project)

has_project_edit_access(user, project) ==
    get_user_role(user, project) \in {"owner", "editor"}

\* manage access decided by the membership role instead of Project.owner
has_project_manage_access_RoleBased(user, project) ==
    get_user_role(user, project) = "owner"

has_project_manage_access(user, project) == is_project_owner(user, project)

can_assign_task(user, project) == has_project_edit_access(user, project)

can_manage_members(user, project) == is_project_owner(user, project)

\* project.members.all()
ProjectMembers(project) == {m.user : m \in {r \in memberships : r.project = project}}

-----------------------------------------------------------------------------
(* Fanout writes.  F is the part of the store the signal handlers write:   *)
(* [notifications, activities, nextId].                                    *)

Store == [notifications |-> notifications, activities |-> activities, nextId |-> nextId]

NotificationCreate(F, user, message, type, rproject, rtask) ==
    [F EXCEPT
        !.notifications = @ \cup {[id |-> F.nextId.notification,
                                   user |-> user,
                                   message |-> message,
                                   notification_type |-> type,
                                   related_project |-> rproject,
                                   related_task |-> rtask,
                                   is_read |-> FALSE]},
        !.nextId.notification = @ + 1]

ActivityCreate(F, project, user, action_type, description) ==
    [F EXCEPT
        !.activities = @ \cup {[id |-> F.nextId.activity,
                                project |-> project,
                                user |-> user,
                                action_type |-> action_type,
                                description |-> description]},
        !.nextId.activity = @ + 1]

\* the notifications of one type addressed to one user
Inbox(rows, user, type) ==
    {n \in rows : n.user = user /\ n.notification_type = type}

\* the bounds of the model on the store a step leaves
Fits(F) ==
    /\ F.nextId.project <= MaxProjects + 1
    /\ F.nextId.task <= MaxTasks + 1
    /\ F.nextId.comment <= MaxComments + 1
    /\ F.nextId.file <= MaxFiles + 1
    /\ \A u \in users :
        /\ Cardinality(Inbox(F.notifications, u, "member_added")) <= MaxMemberAdded
        /\ Cardinality(Inbox(F.notifications, u, "task_assigned")) <= MaxTaskAssigned
        /\ Cardinality(Inbox(F.notifications, u, "mention")) <= MaxMentions

-----------------------------------------------------------------------------
(* Signal handlers: projects/signals.py *)

create_project_activity(F, instance, owner, created) ==
    IF created
    THEN ActivityCreate(F, instance, owner, "project_created",
            <<"c","r","e","a","t","e","d"," ","p","r","o","j","e","c","t"," ","\"">>
                \o ProjectName(instance) \o <<"\"">>)
    ELSE F

\* notify_member_added without the test of `created`
notify_member_added_OnEverySave(F, instance, owner, created) ==
    IF instance.user # owner
    THEN ActivityCreate(
            NotificationCreate(F, instance.user,
                <<"Y","o","u"," ","w","e","r","e"," ","a","d","d","e","d"," ","t","o"," ",
                  "p","r","o","j","e","c","t"," ","\"">>
                    \o ProjectName(instance.project) \o <<"\""," ","a","s"," ">>
                    \o get_role_display(instance.role),
                "member_added", instance.project, NoId),
            instance.project, instance.user, "member_added",
            <<"w","a","s"," ","a","d","d","e","d"," ","t","o"," ","t","h","e"," ",
              "p","r","o","j","e","c","t"," ","a","s"," ">>
                \o get_role_display(instance.role))
    ELSE F

\* instance: the membership row; owner: instance.project.owner
notify_member_added(F, instance, owner, created) ==
    IF created /\ instance.user # owner
    THEN ActivityCreate(
            NotificationCreate(F, instance.user,
                <<"Y","o","u"," ","w","e","r","e"," ","a","d","d","e","d"," ","t","o"," ",
                  "p","r","o","j","e","c","t"," ","\"">>
                    \o ProjectName(instance.project) \o <<"\""," ","a","s"," ">>
                    \o get_role_display(instance.role),
                "member_added", instance.project, NoId),
            instance.project, instance.user, "member_added",
            <<"w","a","s"," ","a","d","d","e","d"," ","t","o"," ","t","h","e"," ",
              "p","r","o","j","e","c","t"," ","a","s"," ">>
                \o get_role_display(instance.role))
    ELSE F

\* instance: the task pk; row: its fields
create_task_activity(F, instance, row, created) ==
    IF created
    THEN ActivityCreate(F, row.project,
            IF row.created_by # NoUser THEN row.created_by ELSE projects[row.project].owner,
            "task_created",
            <<"c","r","e","a","t","e","d"," ","t","a","s","k"," ","\"">>
                \o TaskTitle(instance) \o <<"\"">>)
    ELSE F

\* pk_set in the order the for loop visits it (a set of small ints: ascending)
PkOrder(pk_set) == SelectSeq(UserOrder, LAMBDA u : u \in pk_set)

\* the loop body without the comparison with instance.created_by
AssignedStep_NoCreatorSkip(F, instance, row, user) ==
    NotificationCreate(F, user,
        <<"Y","o","u"," ","w","e","r","e"," ","a","s","s","i","g","n","e","d"," ",
          "t","o"," ","t","a","s","k"," ","\"">> \o TaskTitle(instance) \o <<"\"">>,
        "task_assigned", row.project, instance)

\* one iteration of the loop of notify_task_assigned
AssignedStep(F, instance, row, user) ==
    IF user # row.created_by
    THEN NotificationCreate(F, user,
            <<"Y","o","u"," ","w","e","r","e"," ","a","s","s","i","g","n","e","d"," ",
              "t","o"," ","t","a","s","k"," ","\"">> \o TaskTitle(instance) \o <<"\"">>,
            "task_assigned", row.project, instance)
    ELSE F

RECURSIVE AssignedLoop(_, _, _, _)
AssignedLoop(F, instance, row, order) ==
    IF order = <<>> THEN F
    ELSE AssignedLoop(AssignedStep(F, instance, row, Head(order)), instance, row, Tail(order))

\* instance: the task pk; row: its fields; pk_set: the pks the add inserted
notify_task_assigned(F, instance, row, action, pk_set) ==
    IF action = "post_add" /\ pk_set # {}
    THEN AssignedLoop(F, instance, row, PkOrder(pk_set))
    ELSE F

\* instance.project or instance.task.project
CommentProject(instance) ==
    IF instance.project # NoId THEN instance.project ELSE tasks[instance.task].project

\* the dedupe query with message__contains=mentioned_user.username
ExistingMention_ByRecipientName(F, instance, mentioned_user) ==
    \E n \in F.notifications :
        /\ n.user = mentioned_user
        /\ n.notification_type = "mention"
        /\ n.related_project = instance.project
        /\ n.related_task = instance.task
        /\ Contains(n.message, Username(mentioned_user))

\* a dedupe query with is_read=False added to its filter
ExistingMention_UnreadOnly(F, instance, mentioned_user) ==
    \E n \in F.notifications :
        /\ n.user = mentioned_user
        /\ n.notification_type = "mention"
        /\ n.related_project = instance.project
        /\ n.related_task = instance.task
        /\ Contains(n.message, Username(instance.user))
        /\ ~n.is_read

\* a dedupe query that never finds a row
ExistingMention_Never(F, instance, mentioned_user) == FALSE

\* the dedupe query of handle_comment_created
ExistingMention(F, instance, mentioned_user) ==
    \E n \in F.notifications :
        /\ n.user = mentioned_user
        /\ n.notification_type = "mention"
        /\ n.related_project = instance.project
        /\ n.related_task = instance.task
        /\ Contains(n.message, Username(instance.user))

\* the loop body without the membership test
MentionStep_NoMemberCheck(F, instance, project, username) ==
    LET found == {u \in users : Username(u) = username} IN
    IF found = {} THEN F
    ELSE LET mentioned_user == CHOOSE u \in found : TRUE IN
         IF /\ mentioned_user # instance.user
            /\ ~ExistingMention(F, instance, mentioned_user)
         THEN NotificationCreate(F, mentioned_user,
                 Username(instance.user)
                     \o <<" ","m","e","n","t","i","o","n","e","d"," ","y","o","u"," ",
                          "i","n"," ","a"," ","c","o","m","m","e","n","t">>,
                 "mention", CommentProject(instance), instance.task)
         ELSE F

\* one iteration of the loop over mentioned_usernames
MentionStep(F, instance, project, username) ==
    LET found == {u \in users : Username(u) = username} IN
    IF found = {} THEN F
    ELSE LET mentioned_user == CHOOSE u \in found : TRUE IN
         IF /\ is_project_member(mentioned_user, project)
            /\ mentioned_user # instance.user
            /\ ~ExistingMention(F, instance, mentioned_user)
         THEN NotificationCreate(F, mentioned_user,
                 Username(instance.user)
                     \o <<" ","m","e","n","t","i","o","n","e","d"," ","y","o","u"," ",
                          "i","n"," ","a"," ","c","o","m","m","e","n","t">>,
                 "mention", CommentProject(instance), instance.task)
         ELSE F

RECURSIVE MentionLoop(_, _, _, _)
MentionLoop(F, instance, project, order) ==
    IF order = <<>> THEN F
    ELSE MentionLoop(MentionStep(F, instance, project, Head(order)),
                     instance, project, Tail(order))

\* instance: the comment row; order: the order the loop visits set(mentions) in
handle_comment_created(F, instance, created, order) ==
    IF created
    THEN MentionLoop(
            ActivityCreate(F, CommentProject(instance), instance.user, "comment_added",
                <<"c","o","m","m","e","n","t","e","d"," ","o","n"," ">>
                    \o (IF instance.project # NoId
                        THEN <<"p","r","o","j","e","c","t">>
                        ELSE <<"t","a","s","k">>)),
            instance, CommentProject(instance), order)
    ELSE F

\* the name of the uploaded file
original_filename == <<"a",".","p","d","f">>

\* instance: the file row
create_file_activity(F, instance, created) ==
    IF created
    THEN ActivityCreate(F, CommentProject(instance), instance.uploaded_by, "file_uploaded",
            <<"u","p","l","o","a","d","e","d"," ","f","i","l","e"," ","\"">>
                \o original_filename \o <<"\"">>)
    ELSE F

MentionOrders(text) == Orders(SeqRange(FindAllMentions(text)))

-----------------------------------------------------------------------------
(* Initial state: an empty database with registered users *)

SpecUsers == {"alice", "bob", "charlie"}

EmptyTables ==
    /\ projects = <<>>
    /\ memberships = {}
    /\ tasks = <<>>
    /\ comments = {}
    /\ notifications = {}
    /\ activities = {}
    /\ nextId = [project |-> 1, task |-> 1, comment |-> 1, file |-> 1,
                notification |-> 1, activity |-> 1]
    /\ last = [op |-> "init", actor |-> NoUser, result |-> "ok"]
    /\ pending = <<>>
    /\ files = {}

Init ==
    /\ users = SpecUsers
    /\ EmptyTables

Outcome(op, actor, result) == [op |-> op, actor |-> actor, result |-> result]

\* the fanout tables after a handler chain that ended in store F
Commit(F) ==
    /\ notifications' = F.notifications
    /\ activities' = F.activities
    /\ nextId' = F.nextId

\* a request that changed nothing
Rejected(op, actor, result) ==
    /\ last' = Outcome(op, actor, result)
    /\ UNCHANGED <<users, pending, files, projects, memberships, tasks, comments, notifications,
                   activities, nextId>>

\* the HTTP status of a view's response: get_object_or_404 raises Http404,
\* redirect() answers 302, a form that is not valid is rendered again (200)
\* except by change_member_role and the upload views, which redirect
StatusCode(op, result) ==
    CASE result = "NotFound" -> 404
      [] /\ result = "form_invalid"
         /\ op \notin {"change_member_role", "upload_project_file", "upload_task_file"} -> 200
      [] OTHER -> 302

InsertRow(table, pk, row) ==
    [k \in DOMAIN table \cup {pk} |-> IF k = pk THEN row ELSE table[k]]

-----------------------------------------------------------------------------
(* Projects *)

\* ProjectCreateView.form_valid: the project, then the owner's membership
ProjectCreateView(actor) ==
    /\ LET pk == nextId.project
           membership == [project |-> pk, user |-> actor, role |-> "owner"]
           F == notify_member_added(
                    create_project_activity(
                        [Store EXCEPT !.nextId.project = @ + 1], pk, actor, TRUE),
                    membership, actor, TRUE)
       IN /\ Fits(F)
          /\ projects' = InsertRow(projects, pk, [owner |-> actor, status |-> "active"])
          /\ memberships' = memberships \cup {membership}
          /\ Commit(F)
          /\ last' = Outcome("project_create", actor, "ok")
    /\ UNCHANGED <<users, pending, files, tasks, comments>>

\* Project.objects.create(owner=...): the row alone (tests.py, the admin site)
ProjectObjectsCreate(owner) ==
    /\ LET pk == nextId.project
           F == create_project_activity(
                    [Store EXCEPT !.nextId.project = @ + 1], pk, owner, TRUE)
       IN /\ Fits(F)
          /\ projects' = InsertRow(projects, pk, [owner |-> owner, status |-> "active"])
          /\ Commit(F)
          /\ last' = Outcome("Project.objects.create", NoUser, "ok")
    /\ UNCHANGED <<users, pending, files, memberships, tasks, comments>>

-----------------------------------------------------------------------------
(* Memberships *)

\* ProjectMembership.objects.create(...): tests.py, the admin site
MembershipObjectsCreate(project, user, role) ==
    /\ project \in DOMAIN projects
    /\ IF MembershipRows(user, project) # {}
       THEN Rejected("ProjectMembership.objects.create", NoUser, "IntegrityError")
       ELSE LET membership == [project |-> project, user |-> user, role |-> role]
                F == notify_member_added(Store, membership, projects[project].owner, TRUE)
            IN /\ Fits(F)
               /\ memberships' = memberships \cup {membership}
               /\ Commit(F)
               /\ last' = Outcome("ProjectMembership.objects.create", NoUser, "ok")
               /\ UNCHANGED <<users, pending, files, projects, tasks, comments>>

\* AddMemberForm.is_valid(): the user is not yet a member, the role is not 'owner'
AddMemberFormValid(project, user, role) ==
    /\ user \in users \ ProjectMembers(project)
    /\ role \in {ROLE_CHOICES[i] : i \in 2..Len(ROLE_CHOICES)}

\* manage_members, POST
ManageMembers(actor, project, user, role) ==
    /\ project \in DOMAIN projects
    /\ IF ~is_project_owner(actor, project)
       THEN Rejected("manage_members", actor, "denied")
       ELSE IF ~AddMemberFormValid(project, user, role)
       THEN Rejected("manage_members", actor, "form_invalid")
       ELSE LET membership == [project |-> project, user |-> user, role |-> role]
                F == notify_member_added(Store, membership, projects[project].owner, TRUE)
            IN /\ Fits(F)
               /\ memberships' = memberships \cup {membership}
               /\ Commit(F)
               /\ last' = Outcome("manage_members", actor, "ok")
               /\ UNCHANGED <<users, pending, files, projects, tasks, comments>>

\* the connections that serve requests at the same time
Sessions == {1, 2}

\* a table without the constraint
unique_together_Off(project, user) == TRUE

\* ProjectMembership.Meta.unique_together = ['project', 'user']: the database
\* refuses the INSERT of a second row for the pair
unique_together(project, user) == MembershipRows(user, project) = {}

\* manage_members, POST, up to form.is_valid(): the request of a session that
\* has read the members and has not written yet
ManageMembersIsValid(session, actor, project, user, role) ==
    /\ session \notin DOMAIN pending
    /\ project \in DOMAIN projects
    /\ IF ~is_project_owner(actor, project)
       THEN Rejected("manage_members", actor, "denied")
       ELSE IF ~AddMemberFormValid(project, user, role)
       THEN Rejected("manage_members", actor, "form_invalid")
       ELSE /\ pending' = InsertRow(pending, session,
                    [actor |-> actor, project |-> project, user |-> user, role |-> role])
            /\ last' = Outcome("manage_members", actor, "form_valid")
            /\ UNCHANGED <<users, files, projects, memberships, tasks, comments,
                           notifications, activities, nextId>>

\* manage_members, POST, from ProjectMembership.objects.create on: the INSERT
\* of the request that the session validated, which raises IntegrityError when
\* the pair has got a row in the meantime
ManageMembersCreate(session) ==
    /\ session \in DOMAIN pending
    /\ pending' = [k \in DOMAIN pending \ {session} |-> pending[k]]
    /\ LET r == pending[session]
           membership == [project |-> r.project, user |-> r.user, role |-> r.role]
           F == notify_member_added(Store, membership, projects[r.project].owner, TRUE)
       IN IF ~unique_together(r.project, r.user)
          THEN /\ last' = Outcome("manage_members", r.actor, "IntegrityError")
               /\ UNCHANGED <<users, files, projects, memberships, tasks, comments,
                              notifications, activities, nextId>>
          ELSE /\ Fits(F)
               /\ memberships' = memberships \cup {membership}
               /\ Commit(F)
               /\ last' = Outcome("manage_members", r.actor, "ok")
               /\ UNCHANGED <<users, files, projects, tasks, comments>>

\* remove_member
RemoveMember(actor, project, user) ==
    /\ project \in DOMAIN projects
    /\ IF ~is_project_owner(actor, project)
       THEN Rejected("remove_member", actor, "denied")
       ELSE IF user = projects[project].owner
       THEN Rejected("remove_member", actor, "refused")
       ELSE IF MembershipRows(user, project) = {}
       THEN Rejected("remove_member", actor, "NotFound")
       ELSE /\ memberships' = memberships \ MembershipRows(user, project)
            /\ last' = Outcome("remove_member", actor, "ok")
            /\ UNCHANGED <<users, pending, files, projects, tasks, comments, notifications,
                           activities, nextId>>

\* a form whose choices are all of ROLE_CHOICES
ChangeMemberRoleFormValid_AllRoles(role) == role \in Roles

\* ChangeMemberRoleForm.is_valid()
ChangeMemberRoleFormValid(role) ==
    role \in {ROLE_CHOICES[i] : i \in 2..Len(ROLE_CHOICES)}

\* change_member_role, POST
ChangeMemberRole(actor, project, user, role) ==
    /\ project \in DOMAIN projects
    /\ IF ~is_project_owner(actor, project)
       THEN Rejected("change_member_role", actor, "denied")
       ELSE IF MembershipRows(user, project) = {}
       THEN Rejected("change_member_role", actor, "NotFound")
       ELSE IF user = projects[project].owner
       THEN Rejected("change_member_role", actor, "refused")
       ELSE IF ~ChangeMemberRoleFormValid(role)
       THEN Rejected("change_member_role", actor, "form_invalid")
       ELSE LET membership == [project |-> project, user |-> user, role |-> role]
                F == notify_member_added(Store, membership, projects[project].owner, FALSE)
            IN /\ Fits(F)
               /\ memberships' = (memberships \ MembershipRows(user, project))
                                     \cup {membership}
               /\ Commit(F)
               /\ last' = Outcome("change_member_role", actor, "ok")
               /\ UNCHANGED <<users, pending, files, projects, tasks, comments>>

-----------------------------------------------------------------------------
(* Maintenance scripts *)

\* Project.objects.all(): Meta.ordering = ['-created_at'], newest first
RECURSIVE NewestFirst(_)
NewestFirst(pks) ==
    IF pks = {} THEN <<>>
    ELSE LET newest == CHOOSE k \in pks : \A j \in pks : j <= k
         IN <<newest>> \o NewestFirst(pks \ {newest})

\* the body of the loop of fix_ownership.py; S = [projects, memberships, F]
FixOwnershipStep(S, project, user) ==
    LET rows == {m \in S.memberships : m.project = project /\ m.user = user}
        membership == [project |-> project, user |-> user, role |-> "owner"]
        saved == create_project_activity(S.F, project, user, FALSE)
    IN [projects |-> [S.projects EXCEPT ![project].owner = user],
        memberships |-> (S.memberships \ rows) \cup {membership},
        F |-> IF rows = {}
              THEN notify_member_added(saved, membership, user, TRUE)
              ELSE IF \E m \in rows : m.role # "owner"
                   THEN notify_member_added(saved, membership, user, FALSE)
                   ELSE saved]

RECURSIVE FixOwnershipLoop(_, _, _)
FixOwnershipLoop(S, order, user) ==
    IF order = <<>> THEN S
    ELSE FixOwnershipLoop(FixOwnershipStep(S, Head(order), user), Tail(order), user)

\* fix_ownership.py, run for `user`
FixOwnership(user) ==
    /\ DOMAIN projects # {}
    /\ LET S == FixOwnershipLoop(
                    [projects |-> projects, memberships |-> memberships, F |-> Store],
                    NewestFirst(DOMAIN projects), user)
       IN /\ Fits(S.F)
          /\ projects' = S.projects
          /\ memberships' = S.memberships
          /\ Commit(S.F)
          /\ last' = Outcome("fix_ownership", NoUser, "ok")
    /\ UNCHANGED <<users, pending, files, tasks, comments>>

-----------------------------------------------------------------------------
(* Tasks *)

\* Task.objects.create(project=..., created_by=...): tests.py, the admin site
TaskObjectsCreate(project, created_by) ==
    /\ project \in DOMAIN projects
    /\ LET pk == nextId.task
           row == [project |-> project, created_by |-> created_by, assignees |-> {}]
           F == create_task_activity([Store EXCEPT !.nextId.task = @ + 1], pk, row, TRUE)
       IN /\ Fits(F)
          /\ tasks' = InsertRow(tasks, pk, row)
          /\ Commit(F)
          /\ last' = Outcome("Task.objects.create", NoUser, "ok")
    /\ UNCHANGED <<users, pending, files, projects, memberships, comments>>

\* task.assignees.add(*pks): inserts the missing rows, then m2m_changed post_add
\* with pk_set = the pks that were missing
AssigneesAdd(task, pks) ==
    /\ task \in DOMAIN tasks
    /\ LET missing == pks \ tasks[task].assignees
           F == notify_task_assigned(Store, task, tasks[task], "post_add", missing)
       IN /\ Fits(F)
          /\ tasks' = [tasks EXCEPT ![task].assignees = @ \cup missing]
          /\ Commit(F)
          /\ last' = Outcome("assignees.add", NoUser, "ok")
    /\ UNCHANGED <<users, pending, files, projects, memberships, comments>>

\* Task.clean(): raises when the stored assignee count exceeds the maximum
TaskCleanRaises(task) ==
    task # NoId /\ Cardinality(tasks[task].assignees) > MAX_TASK_ASSIGNEES

\* task.clean() called on a stored task
TaskClean(task) ==
    /\ task \in DOMAIN tasks
    /\ Rejected("Task.clean", NoUser,
                IF TaskCleanRaises(task) THEN "ValidationError" ELSE "ok")

\* TaskForm: assignees limited to project.members, clean_assignees, Task.clean
TaskFormValid(project, task, assignees) ==
    /\ assignees \subseteq ProjectMembers(project)
    /\ ~(assignees # {} /\ Cardinality(assignees) > MAX_TASK_ASSIGNEES)
    /\ ~TaskCleanRaises(task)

\* Project.is_completed, read by TaskCreateView.dispatch
is_completed(project) == projects[project].status = "completed"

\* TaskCreateView, POST to <project_pk>/tasks/create/
TaskCreateView(actor, project_pk, assignees) ==
    /\ project_pk \in DOMAIN projects
    /\ IF is_completed(project_pk)
       THEN Rejected("task_create", actor, "completed")
       ELSE IF ~has_project_edit_access(actor, project_pk)
       THEN Rejected("task_create", actor, "denied")
       ELSE IF ~TaskFormValid(project_pk, NoId, assignees)
       THEN Rejected("task_create", actor, "form_invalid")
       ELSE LET pk == nextId.task
                row == [project |-> project_pk, created_by |-> actor, assignees |-> {}]
                F == notify_task_assigned(
                         create_task_activity(
                             [Store EXCEPT !.nextId.task = @ + 1], pk, row, TRUE),
                         pk, row, "post_add", assignees)
            IN /\ Fits(F)
               /\ tasks' = InsertRow(tasks, pk, [row EXCEPT !.assignees = assignees])
               /\ Commit(F)
               /\ last' = Outcome("task_create", actor, "ok")
               /\ UNCHANGED <<users, pending, files, projects, memberships, comments>>

\* ProjectEditorRequiredMixin.dispatch: kwargs.get('pk') or kwargs.get('project_pk')
MixinProjectPk(pk, project_pk) == IF pk # NoId THEN pk ELSE project_pk

\* TaskUpdateView, POST to <project_pk>/tasks/<pk>/edit/
TaskUpdateView(actor, project_pk, pk, assignees) ==
    /\ LET checked == MixinProjectPk(pk, project_pk) IN
       IF checked \notin DOMAIN projects
       THEN Rejected("task_update", actor, "NotFound")
       ELSE IF ~has_project_edit_access(actor, checked)
       THEN Rejected("task_update", actor, "denied")
       ELSE IF pk \notin DOMAIN tasks
       THEN Rejected("task_update", actor, "NotFound")
       ELSE IF ~TaskFormValid(tasks[pk].project, pk, assignees)
       THEN Rejected("task_update", actor, "form_invalid")
       ELSE LET missing == assignees \ tasks[pk].assignees
                F == notify_task_assigned(
                         create_task_activity(Store, pk, tasks[pk], FALSE),
                         pk, tasks[pk], "post_add", missing)
            IN /\ Fits(F)
               /\ tasks' = [tasks EXCEPT ![pk].assignees = assignees]
               /\ Commit(F)
               /\ last' = Outcome("task_update", actor, "ok")
               /\ UNCHANGED <<users, pending, files, projects, memberships, comments>>

\* Task.delete(): the row, and by on_delete=CASCADE the comments, files and
\* notifications that reference it
TaskDelete(pk) ==
    /\ tasks' = [k \in DOMAIN tasks \ {pk} |-> tasks[k]]
    /\ comments' = {c \in comments : c.task # pk}
    /\ notifications' = {n \in notifications : n.related_task # pk}
    /\ files' = {f \in files : f.task # pk}

\* TaskDeleteView, POST to <project_pk>/tasks/<pk>/delete/
TaskDeleteView(actor, project_pk, pk) ==
    /\ LET checked == MixinProjectPk(pk, project_pk) IN
       IF checked \notin DOMAIN projects
       THEN Rejected("task_delete", actor, "NotFound")
       ELSE IF ~has_project_edit_access(actor, checked)
       THEN Rejected("task_delete", actor, "denied")
       ELSE IF pk \notin DOMAIN tasks
       THEN Rejected("task_delete", actor, "NotFound")
       ELSE /\ TaskDelete(pk)
            /\ last' = Outcome("task_delete", actor, "ok")
            /\ UNCHANGED <<users, pending, projects, memberships, activities, nextId>>

-----------------------------------------------------------------------------
(* Comments *)

\* "Hey @bob, @charlie check this"
TextHeyBobCharlie ==
    <<"H","e","y"," ","@","b","o","b",","," ","@","c","h","a","r","l","i","e"," ","c","h","e","c","k"," ","t","h","i","s">>

\* "@zed @alice": zed is no registered username
TextZedAlice == <<"@","z","e","d"," ","@","a","l","i","c","e">>

CommentTexts == {TextHeyBobCharlie, TextZedAlice}

\* "@bob ok"
TextBobOk == <<"@","b","o","b"," ","o","k">>

\* the characters of the texts that are enumerated: '@', three letters of
\* "bob" and "bobby", and a blank
TextAlphabet == {"@", "b", "o", "y", " "}

\* every non-empty text of at most MaxTextLen characters over TextAlphabet,
\* and two texts with a digit and an underscore
ParseTexts ==
    UNION {[1..n -> TextAlphabet] : n \in 1..MaxTextLen}
        \cup {<<"@","b","_","1">>, <<"@","b","o","b","_","2"," ","@","b","o","b">>}

\* comment.save() of a new row, with the post_save fanout.  The row is
\* inserted before post_save is sent; with neither project nor task,
\* instance.task.project raises AttributeError in handle_comment_created and
\* the inserted row stays
CommentSave(op, actor, user, text, project, task) ==
    /\ IF project = NoId /\ task = NoId
       THEN LET instance == [id |-> nextId.comment, user |-> user, text |-> text,
                             project |-> project, task |-> task]
                F == [Store EXCEPT !.nextId.comment = @ + 1]
            IN /\ Fits(F)
               /\ comments' = comments \cup {instance}
               /\ Commit(F)
               /\ last' = Outcome(op, actor, "AttributeError")
       ELSE \E order \in MentionOrders(text) :
            LET instance == [id |-> nextId.comment, user |-> user, text |-> text,
                             project |-> project, task |-> task]
                F == handle_comment_created(
                         [Store EXCEPT !.nextId.comment = @ + 1], instance, TRUE, order)
            IN /\ Fits(F)
               /\ comments' = comments \cup {instance}
               /\ Commit(F)
               /\ last' = Outcome(op, actor, "ok")
    /\ UNCHANGED <<users, pending, files, projects, memberships, tasks>>

\* Comment.objects.create(user=..., text=..., project=..., task=...): tests.py,
\* the admin site; project and task are both nullable and nothing validates them
CommentObjectsCreate(user, text, project, task) ==
    /\ project \in DOMAIN projects \cup {NoId}
    /\ task \in DOMAIN tasks \cup {NoId}
    /\ CommentSave("Comment.objects.create", NoUser, user, text, project, task)

\* add_project_comment, POST
AddProjectComment(actor, pk, text) ==
    /\ pk \in DOMAIN projects
    /\ CommentSave("add_project_comment", actor, actor, text, pk, NoId)

\* add_task_comment, POST
AddTaskComment(actor, pk, text) ==
    /\ pk \in DOMAIN tasks
    /\ CommentSave("add_task_comment", actor, actor, text, NoId, pk)

\* the request of a session after the iteration on Head(r.rest)
Advance(session, r) ==
    IF Tail(r.rest) = <<>>
    THEN [k \in DOMAIN pending \ {session} |-> pending[k]]
    ELSE [pending EXCEPT ![session] = [r EXCEPT !.rest = Tail(r.rest), !.write = FALSE]]

\* add_project_comment, POST, to the start of the loop over mentioned_usernames:
\* the comment row and its Activity are stored; the tokens are still to visit
CommentInsert(session, actor, pk, text) ==
    /\ session \notin DOMAIN pending
    /\ pk \in DOMAIN projects
    /\ \E order \in MentionOrders(text) :
        LET instance == [id |-> nextId.comment, user |-> actor, text |-> text,
                         project |-> pk, task |-> NoId]
            F == handle_comment_created(
                     [Store EXCEPT !.nextId.comment = @ + 1], instance, TRUE, <<>>)
        IN /\ Fits(F)
           /\ comments' = comments \cup {instance}
           /\ Commit(F)
           /\ pending' = IF order = <<>> THEN pending
                         ELSE InsertRow(pending, session,
                                  [instance |-> instance, rest |-> order, write |-> FALSE])
           /\ last' = Outcome("add_project_comment", actor, "inserted")
    /\ UNCHANGED <<users, files, projects, memberships, tasks>>

\* one iteration to its dedupe query: User.objects.get, the membership test,
\* the author test and Notification.objects.filter(...).exists()
MentionRead(session) ==
    /\ session \in DOMAIN pending
    /\ LET r == pending[session]
           found == {u \in users : Username(u) = Head(r.rest)}
       IN /\ ~r.write
          /\ pending' =
                IF /\ found # {}
                   /\ \A u \in found :
                        /\ is_project_member(u, CommentProject(r.instance))
                        /\ u # r.instance.user
                        /\ ~ExistingMention(Store, r.instance, u)
                THEN [pending EXCEPT ![session].write = TRUE]
                ELSE Advance(session, r)
          /\ last' = Outcome("add_project_comment", r.instance.user, "read")
    /\ UNCHANGED <<users, files, projects, memberships, tasks, comments, notifications,
                   activities, nextId>>

\* the rest of the iteration: Notification.objects.create for the user whose
\* dedupe query found no row
MentionWrite(session) ==
    /\ session \in DOMAIN pending
    /\ LET r == pending[session]
           mentioned_user == CHOOSE u \in users : Username(u) = Head(r.rest)
           F == NotificationCreate(Store, mentioned_user,
                    Username(r.instance.user)
                        \o <<" ","m","e","n","t","i","o","n","e","d"," ","y","o","u"," ",
                             "i","n"," ","a"," ","c","o","m","m","e","n","t">>,
                    "mention", CommentProject(r.instance), r.instance.task)
       IN /\ r.write
          /\ Fits(F)
          /\ Commit(F)
          /\ pending' = Advance(session, r)
          /\ last' = Outcome("add_project_comment", r.instance.user, "written")
    /\ UNCHANGED <<users, files, projects, memberships, tasks, comments>>

-----------------------------------------------------------------------------
(* Files *)

\* File.save() of a new row, then post_save -> create_file_activity; with
\* neither project nor task, instance.task.project raises AttributeError after
\* the INSERT
FileSave(op, actor, uploaded_by, project, task) ==
    /\ LET instance == [id |-> nextId.file, uploaded_by |-> uploaded_by,
                        project |-> project, task |-> task]
           G == [Store EXCEPT !.nextId.file = @ + 1]
           F == IF project = NoId /\ task = NoId
                THEN G
                ELSE create_file_activity(G, instance, TRUE)
       IN /\ Fits(F)
          /\ files' = files \cup {instance}
          /\ Commit(F)
          /\ last' = Outcome(op, actor,
                        IF project = NoId /\ task = NoId THEN "AttributeError" ELSE "ok")
    /\ UNCHANGED <<users, pending, projects, memberships, tasks, comments>>

\* File.objects.create(uploaded_by=..., project=..., task=...): the admin site;
\* project and task are both nullable
FileObjectsCreate(uploaded_by, project, task) ==
    /\ project \in DOMAIN projects \cup {NoId}
    /\ task \in DOMAIN tasks \cup {NoId}
    /\ FileSave("File.objects.create", NoUser, uploaded_by, project, task)

\* upload_project_file, POST; valid: FileUploadForm.is_valid()
UploadProjectFile(actor, pk, valid) ==
    IF pk \notin DOMAIN projects
    THEN Rejected("upload_project_file", actor, "NotFound")
    ELSE IF ~has_project_edit_access(actor, pk)
    THEN Rejected("upload_project_file", actor, "denied")
    ELSE IF ~valid
    THEN Rejected("upload_project_file", actor, "form_invalid")
    ELSE FileSave("upload_project_file", actor, actor, pk, NoId)

\* upload_task_file, POST
UploadTaskFile(actor, pk, valid) ==
    IF pk \notin DOMAIN tasks
    THEN Rejected("upload_task_file", actor, "NotFound")
    ELSE IF ~has_project_edit_access(actor, tasks[pk].project)
    THEN Rejected("upload_task_file", actor, "denied")
    ELSE IF ~valid
    THEN Rejected("upload_task_file", actor, "form_invalid")
    ELSE FileSave("upload_task_file", actor, actor, NoId, pk)

-----------------------------------------------------------------------------
(* Deletions *)

\* Project.delete(): the row, and by on_delete=CASCADE its memberships, tasks,
\* comments, files, activities and the notifications that reference it or one
\* of its tasks
ProjectDelete(pk) ==
    LET gone == {t \in DOMAIN tasks : tasks[t].project = pk}
    IN /\ projects' = [k \in DOMAIN projects \ {pk} |-> projects[k]]
       /\ memberships' = {m \in memberships : m.project # pk}
       /\ tasks' = [k \in DOMAIN tasks \ gone |-> tasks[k]]
       /\ comments' = {c \in comments : c.project # pk /\ c.task \notin gone}
       /\ files' = {f \in files : f.project # pk /\ f.task \notin gone}
       /\ notifications' = {n \in notifications :
                                n.related_project # pk /\ n.related_task \notin gone}
       /\ activities' = {a \in activities : a.project # pk}

\* ProjectDeleteView, POST to <pk>/delete/ (ProjectOwnerRequiredMixin)
ProjectDeleteView(actor, pk) ==
    IF pk \notin DOMAIN projects
    THEN Rejected("project_delete", actor, "NotFound")
    ELSE IF ~is_project_owner(actor, pk)
    THEN Rejected("project_delete", actor, "denied")
    ELSE /\ ProjectDelete(pk)
         /\ last' = Outcome("project_delete", actor, "ok")
         /\ UNCHANGED <<users, pending, nextId>>

\* delete_comment, POST: the author or the project's owner deletes the row
DeleteComment(actor, pk) ==
    IF \A c \in comments : c.id # pk
    THEN Rejected("delete_comment", actor, "NotFound")
    ELSE LET comment == CHOOSE c \in comments : c.id = pk
         IN IF comment.project = NoId /\ comment.task = NoId
            THEN Rejected("delete_comment", actor, "AttributeError")
            ELSE IF actor # comment.user /\ ~is_project_owner(actor, CommentProject(comment))
            THEN Rejected("delete_comment", actor, "denied")
            ELSE /\ comments' = comments \ {comment}
                 /\ last' = Outcome("delete_comment", actor, "ok")
                 /\ UNCHANGED <<users, pending, files, projects, memberships, tasks,
                                notifications, activities, nextId>>

-----------------------------------------------------------------------------
(* Notifications *)

\* the URL prefix of projects.urls: path('projects/', include('projects.urls'))
ProjectsPrefix == <<"/","p","r","o","j","e","c","t","s","/">>

\* the URL of the route named project_detail: '<int:pk>/'
ProjectDetailUrl(pk) == ProjectsPrefix \o <<Digit(pk), "/">>

\* the URL of the route named task_detail: '<int:project_pk>/tasks/<int:pk>/'
TaskDetailUrl(project_pk, pk) ==
    ProjectsPrefix \o <<Digit(project_pk), "/","t","a","s","k","s","/", Digit(pk), "/">>

\* the URL of the route named notifications (the inbox): 'notifications/'
NotificationsUrl ==
    ProjectsPrefix \o <<"n","o","t","i","f","i","c","a","t","i","o","n","s","/">>

\* Notification.get_link
get_link(n) ==
    IF n.related_task # NoId
    THEN <<"/","p","r","o","j","e","c","t","s","/", Digit(tasks[n.related_task].project),
           "/","t","a","s","k","s","/", Digit(n.related_task), "/">>
    ELSE IF n.related_project # NoId
    THEN <<"/","p","r","o","j","e","c","t","s","/", Digit(n.related_project), "/">>
    ELSE <<"/","n","o","t","i","f","i","c","a","t","i","o","n","s","/">>

\* "Test notification"
TextTestNotification ==
    <<"T","e","s","t"," ","n","o","t","i","f","i","c","a","t","i","o","n">>

\* the primary keys of the stored notifications
NotificationPks(rows) == {n.id : n \in rows}

\* Notification.objects.create(user=..., notification_type='mention', ...):
\* tests.py, the admin site
NotificationObjectsCreate(user, rproject, rtask) ==
    /\ user \in users
    /\ rproject \in DOMAIN projects \cup {NoId}
    /\ rtask \in DOMAIN tasks \cup {NoId}
    /\ LET F == NotificationCreate(Store, user, TextTestNotification, "mention",
                                   rproject, rtask)
       IN /\ Fits(F)
          /\ Commit(F)
          /\ last' = Outcome("Notification.objects.create", NoUser, "ok")
    /\ UNCHANGED <<users, pending, files, projects, memberships, tasks, comments>>

\* get_object_or_404(Notification, pk=pk, user=request.user) without user=
MarkReadLookup_AnyUser(actor, pk) == {n \in notifications : n.id = pk}

\* get_object_or_404(Notification, pk=pk, user=request.user): the rows found
MarkReadLookup(actor, pk) == {n \in notifications : n.id = pk /\ n.user = actor}

\* notification.is_read = True written as a flip of the flag
MarkRead_Toggle(notification) == [notification EXCEPT !.is_read = ~@]

\* notification.is_read = True; notification.save()
MarkRead(notification) == [notification EXCEPT !.is_read = TRUE]

\* mark_notification_read; the outcome records the pk of the request and the
\* Location of the redirect
mark_notification_read(actor, pk) ==
    /\ IF MarkReadLookup(actor, pk) = {}
       THEN /\ last' = [op |-> "mark_notification_read", actor |-> actor,
                        result |-> "NotFound", pk |-> pk, location |-> <<>>]
            /\ notifications' = notifications
       ELSE LET notification == CHOOSE n \in MarkReadLookup(actor, pk) : TRUE IN
            /\ notifications' = (notifications \ {notification})
                                    \cup {MarkRead(notification)}
            /\ last' = [op |-> "mark_notification_read", actor |-> actor,
                        result |-> "ok", pk |-> pk, location |-> get_link(notification)]
    /\ UNCHANGED <<users, pending, files, projects, memberships, tasks, comments, activities, nextId>>

-----------------------------------------------------------------------------
(* Specifications.  Each draws its requests from a small set of inputs; the *)
(* guards nextId.project = 1 and nextId.task = 1 let a scenario create one  *)
(* project and one task.                                                    *)

\* membership management of alice and bob on the project that alice creates;
\* charlie stays an outsider
NextRoles ==
    \/ nextId.project = 1 /\ ProjectCreateView("alice")
    \/ nextId.project = 1 /\ ProjectObjectsCreate("alice")
    \/ \E p \in {1}, u \in {"alice", "bob"}, r \in Roles :
           MembershipObjectsCreate(p, u, r)
    \/ \E a \in {"alice", "bob"}, p \in {1}, u \in {"alice", "bob"},
          r \in {"owner", "editor"} : ManageMembers(a, p, u, r)
    \/ \E a \in {"alice", "bob"}, p \in {1}, u \in {"alice", "bob"} :
           RemoveMember(a, p, u)
    \/ \E a \in {"alice", "bob"}, p \in {1}, u \in {"alice", "bob"},
          r \in {"owner", "viewer"} : ChangeMemberRole(a, p, u, r)
    \/ FixOwnership("bob")

SpecRoles == Init /\ [][NextRoles]_vars

\* comments by alice and bob on alice's project and its task; bob joins as
\* editor (tests.py, MentionNotificationTest.setUp); charlie is registered but
\* never a member, zed is not registered
NextMention ==
    \/ nextId.project = 1 /\ ProjectCreateView("alice")
    \/ MembershipObjectsCreate(1, "bob", "editor")
    \/ nextId.task = 1 /\ TaskObjectsCreate(1, "alice")
    \/ \E a \in {"alice", "bob"}, x \in CommentTexts : AddProjectComment(a, 1, x)
    \/ \E a \in {"alice", "bob"}, x \in CommentTexts : AddTaskComment(a, 1, x)
    \/ CommentObjectsCreate("charlie", TextHeyBobCharlie, 1, NoId)

SpecMention == Init /\ [][NextMention]_vars

\* task assignment on alice's project with bob as editor; charlie is never a
\* member
NextTask ==
    \/ nextId.project = 1 /\ ProjectCreateView("alice")
    \/ MembershipObjectsCreate(1, "bob", "editor")
    \/ nextId.task = 1 /\ \E creator \in {"alice", NoUser} : TaskObjectsCreate(1, creator)
    \/ nextId.task = 1 /\ \E S \in {{}, {"alice", "bob"}, {"charlie"}} :
           TaskCreateView("alice", 1, S)
    \/ \E a \in {"bob", "charlie"}, S \in {{}, {"bob"}, {"alice", "bob"}} :
           TaskUpdateView(a, 1, 1, S)
    \/ \E S \in {{"bob"}, {"charlie"}, {"alice", "bob"}} : AssigneesAdd(1, S)
    \/ TaskClean(1)

SpecTask == Init /\ [][NextTask]_vars

\* the assignee limit: the owner and six more registered users (tests.py,
\* TaskModelTest.setUp)
LimitUsers == {"alice", "bob", "charlie", "dave", "erin", "frank", "grace"}

\* user1 .. user5 of test_max_assignees_limit
FiveUsers == {"bob", "charlie", "dave", "erin", "frank"}

InitLimit ==
    /\ users = LimitUsers
    /\ EmptyTables

NextLimit ==
    \/ nextId.project = 1 /\ ProjectCreateView("alice")
    \/ nextId.task = 1 /\ TaskObjectsCreate(1, "alice")
    \/ \E S \in {FiveUsers, {"bob", "charlie"}, {"bob"}, {"grace"}, {"alice"}} :
           AssigneesAdd(1, S)
    \/ \E a \in {"alice", "bob"}, S \in {{}, {"alice"}} : TaskUpdateView(a, 1, 1, S)
    \/ TaskClean(1)

SpecLimit == InitLimit /\ [][NextLimit]_vars

\* two projects with one owner each and tasks in either; requests for a task
\* under either project id in the path
NextCross ==
    \/ nextId.project = 1 /\ ProjectCreateView("alice")
    \/ nextId.project = 2 /\ ProjectCreateView("bob")
    \/ \E p \in {1, 2} : TaskObjectsCreate(p, projects[p].owner)
    \/ \E a \in {"alice", "bob"}, p \in {1, 2}, t \in {1, 2}, S \in {{}, {"alice"}} :
           TaskUpdateView(a, p, t, S)
    \/ \E a \in {"alice", "bob"}, p \in {1, 2}, t \in {1, 2} : TaskDeleteView(a, p, t)

SpecCross == Init /\ [][NextCross]_vars

\* task creation on alice's project by the owner, by bob as viewer or editor,
\* and by charlie, who is no member
NextGate ==
    \/ nextId.project = 1 /\ ProjectCreateView("alice")
    \/ \E r \in {"viewer", "editor"} : MembershipObjectsCreate(1, "bob", r)
    \/ \E r \in {"viewer", "editor"} : ChangeMemberRole("alice", 1, "bob", r)
    \/ \E a \in {"alice", "bob", "charlie"}, S \in {{}, {"bob"}} : TaskCreateView(a, 1, S)

SpecGate == Init /\ [][NextGate]_vars

\* the inboxes of alice and bob: bob's notification written by the fanout and
\* alice's by Notification.objects.create, with and without project and task;
\* either user asks to mark any stored notification, or a pk not in use
NextInbox ==
    \/ nextId.project = 1 /\ ProjectCreateView("alice")
    \/ nextId.task = 1 /\ TaskObjectsCreate(1, "alice")
    \/ AssigneesAdd(1, {"bob"})
    \/ \E p \in {NoId, 1}, t \in {NoId, 1} : NotificationObjectsCreate("alice", p, t)
    \/ \E a \in {"alice", "bob"},
          pk \in {n.id : n \in notifications} \cup {nextId.notification} :
           mark_notification_read(a, pk)

SpecInbox == Init /\ [][NextInbox]_vars

\* comments created with a project, a task, both or neither
NextShape ==
    \/ nextId.project = 1 /\ ProjectCreateView("alice")
    \/ MembershipObjectsCreate(1, "bob", "editor")
    \/ nextId.task = 1 /\ TaskObjectsCreate(1, "alice")
    \/ \E u \in {"alice", "bob"}, p \in {NoId, 1}, t \in {NoId, 1} :
           CommentObjectsCreate(u, TextHeyBobCharlie, p, t)

SpecShape == Init /\ [][NextShape]_vars

\* add-member requests of alice (two browser tabs) and bob on alice's project,
\* each split at the point between the form's check and the INSERT
NextRace ==
    \/ nextId.project = 1 /\ ProjectCreateView("alice")
    \/ nextId.project = 1 /\ ProjectObjectsCreate("alice")
    \/ \E s \in Sessions, a \in {"alice", "bob"}, u \in {"alice", "bob"},
          r \in {"editor", "viewer"} : ManageMembersIsValid(s, a, 1, u, r)
    \/ \E s \in Sessions : ManageMembersCreate(s)

SpecRace == Init /\ [][NextRace]_vars

\* creations and re-saves on alice's project, with bob as editor: project,
\* task (with and without a creator), comments and files, through the views
\* and through the managers
NextFeed ==
    \/ nextId.project = 1 /\ ProjectCreateView("alice")
    \/ MembershipObjectsCreate(1, "bob", "editor")
    \/ nextId.task = 1 /\ \E c \in {"bob", NoUser} : TaskObjectsCreate(1, c)
    \/ \E S \in {{}, {"bob"}} : TaskUpdateView("alice", 1, 1, S)
    \/ ChangeMemberRole("alice", 1, "bob", "viewer")
    \/ FixOwnership("bob")
    \/ nextId.comment = 1 /\ AddProjectComment("bob", 1, TextZedAlice)
    \/ nextId.comment = 1 /\ AddTaskComment("alice", 1, TextZedAlice)
    \/ nextId.comment = 2 /\ \E p \in {NoId, 1} :
           CommentObjectsCreate("alice", TextZedAlice, p, NoId)
    \/ nextId.file = 1 /\ \E a \in {"alice", "bob"}, valid \in BOOLEAN :
           UploadProjectFile(a, 1, valid)
    \/ nextId.file = 1 /\ \E valid \in BOOLEAN : UploadTaskFile("bob", 1, valid)
    \/ nextId.file = 1 /\ \E t \in {NoId, 1} : FileObjectsCreate("alice", NoId, t)

SpecFeed == Init /\ [][NextFeed]_vars

\* the life of the notifications of alice and bob on alice's project: bob is
\* added, assigned to the task and mentioned; then members, comments, the task
\* and the project are removed and notifications are marked read
NextKeep ==
    \/ nextId.project = 1 /\ ProjectCreateView("alice")
    \/ nextId.notification = 1 /\ MembershipObjectsCreate(1, "bob", "editor")
    \/ nextId.task = 1 /\ TaskObjectsCreate(1, "alice")
    \/ AssigneesAdd(1, {"bob"})
    \/ nextId.comment = 1 /\ AddTaskComment("bob", 1, TextZedAlice)
    \/ nextId.comment = 2 /\ AddProjectComment("alice", 1, TextHeyBobCharlie)
    \/ RemoveMember("alice", 1, "bob")
    \/ \E a \in {"alice", "bob"}, pk \in NotificationPks(notifications) :
           mark_notification_read(a, pk)
    \/ \E pk \in {1, 2} : DeleteComment("alice", pk)
    \/ TaskDeleteView("alice", 1, 1)
    \/ \E a \in {"alice", "bob"} : ProjectDeleteView(a, 1)

SpecKeep == Init /\ [][NextKeep]_vars

\* alice posts "Hey @bob, @charlie check this" on her project from two browser
\* tabs, each request split at its dedupe query, and as whole requests; bob is
\* an editor, charlie no member
NextDup ==
    \/ nextId.project = 1 /\ ProjectCreateView("alice")
    \/ MembershipObjectsCreate(1, "bob", "editor")
    \/ \E s \in Sessions : CommentInsert(s, "alice", 1, TextHeyBobCharlie)
    \/ \E s \in Sessions : MentionRead(s)
    \/ \E s \in Sessions : MentionWrite(s)
    \/ AddProjectComment("alice", 1, TextHeyBobCharlie)

SpecDup == Init /\ [][NextDup]_vars

\* one comment of alice on her project, its text any of ParseTexts; bob may be
\* a member when it is posted
NextParse ==
    \/ nextId.project = 1 /\ ProjectCreateView("alice")
    \/ MembershipObjectsCreate(1, "bob", "editor")
    \/ nextId.comment = 1 /\ \E text \in ParseTexts : AddProjectComment("alice", 1, text)

SpecParse == Init /\ [][NextParse]_vars

\* the membership views alone: alice creates a project; alice and bob add,
\* remove and change members, with every role as input
NextViews ==
    \/ nextId.project = 1 /\ ProjectCreateView("alice")
    \/ \E a \in {"alice", "bob"}, u \in {"alice", "bob", "charlie"}, r \in Roles :
           ManageMembers(a, 1, u, r)
    \/ \E a \in {"alice", "bob"}, u \in {"alice", "bob", "charlie"} :
           RemoveMember(a, 1, u)
    \/ \E a \in {"alice", "bob"}, u \in {"alice", "bob", "charlie"}, r \in Roles :
           ChangeMemberRole(a, 1, u, r)

SpecViews == Init /\ [][NextViews]_vars

\* members and assignees through the views alone: alice adds bob and charlie
\* and removes bob, alice and bob create the task and alice edits it, with
\* members as assignees
NextUnassign ==
    \/ nextId.project = 1 /\ ProjectCreateView("alice")
    \/ ManageMembers("alice", 1, "bob", "editor")
    \/ ManageMembers("alice", 1, "charlie", "viewer")
    \/ \E a \in {"alice", "bob"} : RemoveMember(a, 1, "bob")
    \/ nextId.task = 1 /\ \E a \in {"alice", "bob"}, S \in {{}, {"bob"}, {"bob", "charlie"}} :
           TaskCreateView(a, 1, S)
    \/ \E S \in {{}, {"bob"}, {"alice", "charlie"}} : TaskUpdateView("alice", 1, 1, S)

SpecUnassign == Init /\ [][NextUnassign]_vars

\* two authors of whom one's username is part of the other's: bob and bobby
NameUsers == {"alice", "bob", "bobby"}

InitNames ==
    /\ users = NameUsers
    /\ EmptyTables

\* bob and bobby are editors of alice's project and post "@zed @alice" on it
NextNames ==
    \/ nextId.project = 1 /\ ProjectCreateView("alice")
    \/ \E u \in {"bob", "bobby"} : MembershipObjectsCreate(1, u, "editor")
    \/ \E a \in {"bob", "bobby"} : AddProjectComment(a, 1, TextZedAlice)
    \/ \E a \in {"bob", "bobby"} : CommentObjectsCreate(a, TextHeyBobCharlie, 1, NoId)

SpecNames == InitNames /\ [][NextNames]_vars

\* alice mentions bob, an editor of her project, in comments of two different
\* texts; alice and bob mark notifications read in between; in the end alice
\* may delete the project
NextAgain ==
    \/ nextId.project = 1 /\ ProjectCreateView("alice")
    \/ MembershipObjectsCreate(1, "bob", "editor")
    \/ \E a \in {"alice", "bob"}, x \in {TextHeyBobCharlie, TextBobOk} :
           AddProjectComment(a, 1, x)
    \/ \E a \in {"alice", "bob"}, pk \in NotificationPks(notifications) :
           mark_notification_read(a, pk)
    \/ ProjectDeleteView("alice", 1)

SpecAgain == Init /\ [][NextAgain]_vars

\* comments on alice's project and its task by alice (owner), bob (editor once
\* added) and charlie (never a member)
NextOutsider ==
    \/ nextId.project = 1 /\ ProjectCreateView("alice")
    \/ MembershipObjectsCreate(1, "bob", "editor")
    \/ nextId.task = 1 /\ TaskObjectsCreate(1, "alice")
    \/ \E a \in {"alice", "bob", "charlie"} : AddProjectComment(a, 1, TextZedAlice)
    \/ \E a \in {"alice", "bob", "charlie"} : AddTaskComment(a, 1, TextHeyBobCharlie)

SpecOutsider == Init /\ [][NextOutsider]_vars

-----------------------------------------------------------------------------
(* Claims *)

\* rows a step inserted
NewNotifications == notifications' \ notifications

NewActivities == activities' \ activities

\* C1: for every user U and project P, has_project_manage_access(U, P) and
\* can_manage_members(U, P) are true exactly when U is P.owner, whatever
\* membership U holds.
C1_ManageIffOwnerField ==
    \A p \in DOMAIN projects : \A u \in users :
        /\ has_project_manage_access(u, p) <=> (u = projects[p].owner)
        /\ can_manage_members(u, p) <=> (u = projects[p].owner)

\* C1 witness: the owner has no membership row while another user's membership
\* role is 'owner', and that user is refused manage access.
C1_Witness ==
    \E p \in DOMAIN projects : \E u \in users :
        /\ u # projects[p].owner
        /\ get_user_role(u, p) = "owner"
        /\ ~has_project_manage_access(u, p)
        /\ get_user_role(projects[p].owner, p) = "none"
        /\ has_project_manage_access(projects[p].owner, p)

\* the message of a mention notification written for a comment of `author`
MentionMessage(author) ==
    Username(author) \o <<" ","m","e","n","t","i","o","n","e","d"," ","y","o","u"," ",
                          "i","n"," ","a"," ","c","o","m","m","e","n","t">>

\* the project a comment row belongs to, directly or through its task
ProjectOfComment(c) == IF c.project # NoId THEN c.project ELSE tasks[c.task].project

\* users a comment row may notify: named by an @token, member of the comment's
\* project, not the author
Mentionable(c) ==
    {u \in users : /\ Username(u) \in SeqRange(FindAllMentions(c.text))
                   /\ \E m \in memberships : m.user = u /\ m.project = ProjectOfComment(c)
                   /\ u # c.user}

C2_Step ==
    \A c \in comments' \ comments :
        LET sent == {n \in NewNotifications : n.notification_type = "mention"} IN
        /\ last'.result = "ok"
        /\ {n.user : n \in sent} \subseteq Mentionable(c)
        /\ \A u \in Mentionable(c) :
               Inbox(notifications, u, "mention") = {} => \E n \in sent : n.user = u
        /\ \A n \in sent :
               /\ Contains(n.message, Username(c.user))
               /\ \A o \in sent : o.user = n.user => o = n

\* C2: the users who receive a mention notification from a created comment are
\* among the users named by an @token of its text who hold a membership in the
\* comment's project and are not its author; the step raises no error, and a
\* token naming an unknown user or a non-member does not stop the others: every
\* such user without a mention notification so far receives exactly one, whose
\* message contains the author's username.
C2_MentionRecipients == [][C2_Step]_vars

\* C2 witness: alice posted "Hey @bob, @charlie check this" on her project with
\* bob a member and charlie not: one notification, for bob, type mention,
\* message containing "alice".
C2_Witness ==
    /\ last.op = "add_project_comment"
    /\ last.actor = "alice"
    /\ \E c \in comments : comments = {c} /\ c.user = "alice" /\ c.text = TextHeyBobCharlie
    /\ is_project_member("bob", 1)
    /\ ~is_project_member("charlie", 1)
    /\ \E n \in notifications :
        /\ {o \in notifications : o.notification_type = "mention"} = {n}
        /\ n.user = "bob"
        /\ Contains(n.message, Username("alice"))

\* C3: no step creates a notification addressed to the user who performed it:
\* not a task_assigned notification for a user who assigns themselves (creator
\* of the task or not), not a mention for the author of the comment.
C3_NoSelfNotification ==
    [][\A n \in NewNotifications : n.user # last'.actor]_vars

\* mention notifications `user` holds on project comments of `author`
ProjectMentions(user, author, project) ==
    {n \in Inbox(notifications, user, "mention") :
        /\ n.related_project = project
        /\ n.related_task = NoId
        /\ n.message = MentionMessage(author)}

\* C4: a member holds at most one mention notification attributable to one
\* author's comments on one project, however often that author posts the same
\* text mentioning the member on that project.
C4_ProjectMentionOnce ==
    \A p \in DOMAIN projects : \A u \in users : \A a \in users :
        Cardinality(ProjectMentions(u, a, p)) <= 1

\* C4 witness: alice posted the same text with @bob twice on her project, bob a
\* member, and bob holds one mention notification of alice.
C4_Witness ==
    /\ last.op = "add_project_comment"
    /\ \E c, d \in comments :
        /\ c.id # d.id
        /\ c.user = "alice" /\ d.user = "alice"
        /\ c.text = TextHeyBobCharlie /\ d.text = TextHeyBobCharlie
        /\ c.project = 1 /\ d.project = 1
    /\ is_project_member("bob", 1)
    /\ Cardinality(ProjectMentions("bob", "alice", 1)) = 1

\* mention notifications `user` holds on comments of `author` on one task
TaskMentions(user, author, task) ==
    {n \in Inbox(notifications, user, "mention") :
        /\ n.related_task = task
        /\ n.related_project = tasks[task].project
        /\ n.message = MentionMessage(author)}

\* C5: a member holds at most one mention notification for one task from one
\* author: the dedupe lookup of the second comment on the task matches the
\* notification the first one wrote.
C5_TaskMentionOnce ==
    \A t \in DOMAIN tasks : \A u \in users : \A a \in users :
        Cardinality(TaskMentions(u, a, t)) <= 1

\* memberships a step created (no row for that project and user before it)
CreatedMemberships ==
    {m \in memberships' :
        ~\E o \in memberships : o.project = m.project /\ o.user = m.user}

C6_Step ==
    LET due == {m \in CreatedMemberships : m.user # projects'[m.project].owner}
        sentN == {n \in NewNotifications : n.notification_type = "member_added"}
        sentA == {a \in NewActivities : a.action_type = "member_added"}
    IN /\ \A m \in due :
            /\ Cardinality({n \in sentN : /\ n.user = m.user
                                          /\ n.related_project = m.project
                                          /\ n.related_task = NoId}) = 1
            /\ Cardinality({a \in sentA : a.user = m.user /\ a.project = m.project}) = 1
       /\ Cardinality(sentN) = Cardinality(due)
       /\ Cardinality(sentA) = Cardinality(due)

\* C6: a step that creates a membership for a user other than the project's
\* owner creates exactly one member_added Notification for that user on that
\* project and exactly one member_added Activity; creating the owner's
\* membership, or saving an existing membership again, creates neither.
C6_MemberAddedFanout == [][C6_Step]_vars

\* C6 witness: after the owner's membership was created with the project and
\* bob was added, a role change went through, and one notification exists.
C6_Witness ==
    /\ last.op = "change_member_role"
    /\ last.result = "ok"
    /\ \E p \in DOMAIN projects :
        /\ get_user_role(projects[p].owner, p) = "owner"
        /\ Cardinality({n \in notifications : n.notification_type = "member_added"}) = 1
        /\ Cardinality({a \in activities : a.action_type = "member_added"}) = 1

\* assignees of a task before a step (none when the step creates the task)
OldAssignees(t) == IF t \in DOMAIN tasks THEN tasks[t].assignees ELSE {}

\* task_assigned notifications a step created for one task
NewTaskAssigned(t) ==
    {n \in NewNotifications : n.notification_type = "task_assigned" /\ n.related_task = t}

C7_Step ==
    /\ \A t \in DOMAIN tasks' :
        LET added == tasks'[t].assignees \ OldAssignees(t)
            due == added \ {tasks'[t].created_by}
        IN /\ \A u \in due :
                \E n \in NewTaskAssigned(t) :
                    /\ n.user = u
                    /\ n.related_project = tasks'[t].project
                    /\ \A o \in NewTaskAssigned(t) : o.user = u => o = n
           /\ {n.user : n \in NewTaskAssigned(t)} = due
    /\ \A n \in NewNotifications :
        n.notification_type = "task_assigned" => n.related_task \in DOMAIN tasks'

C8_Step ==
    \A t \in DOMAIN tasks :
        (/\ Cardinality(tasks[t].assignees) = MAX_TASK_ASSIGNEES
         /\ tasks[t].assignees \subseteq tasks'[t].assignees
         /\ tasks'[t].assignees # tasks[t].assignees)
        => /\ Cardinality(tasks'[t].assignees) > MAX_TASK_ASSIGNEES
           /\ \A u \in tasks'[t].assignees \ tasks[t].assignees :
                ~\E n \in notifications' :
                    /\ n.user = u
                    /\ n.notification_type = "task_assigned"
                    /\ n.related_task = t

\* C8: when a task has MAX_TASK_ASSIGNEES assignees and a further user is added
\* to the assignee set, Task.clean raises on the stored task afterwards and no
\* task_assigned notification exists for the further user.
C8_NoNotificationPastLimit == [][C8_Step]_vars

\* C9: every task has at most MAX_TASK_ASSIGNEES assignees in every reachable
\* state.
C9_AssigneeLimit ==
    \A t \in DOMAIN tasks : Cardinality(tasks[t].assignees) <= MAX_TASK_ASSIGNEES

\* C10: every notification is addressed to a user who holds a membership in its
\* related project when it is created.
C10_RecipientIsMember ==
    [][\A n \in NewNotifications :
          \E m \in memberships' : m.user = n.user /\ m.project = n.related_project]_vars

\* tasks a step deleted or changed
TouchedTasks == {t \in DOMAIN tasks : t \notin DOMAIN tasks' \/ tasks'[t] # tasks[t]}

\* C11: a task update or task delete request changes or deletes a task only
\* when the requesting user has edit access to the task's own project.
C11_TaskGateOwnProject ==
    [][last'.op \in {"task_update", "task_delete"}
         => \A t \in TouchedTasks : has_project_edit_access(last'.actor, tasks[t].project)]_vars

\* C12: a task-creation request by a user without edit access is answered with
\* HTTP 403 and creates no Task, no Activity and no Notification.
C12_TaskCreateForbidden ==
    [][(/\ last'.op = "task_create"
        /\ \A p \in DOMAIN projects : ~has_project_edit_access(last'.actor, p))
       => /\ StatusCode(last'.op, last'.result) = 403
          /\ UNCHANGED <<tasks, activities, notifications>>]_vars

\* the stored notification a mark-read request names, if any
Requested(pk) == {n \in notifications : n.id = pk}

C13_Step ==
    (/\ last'.op = "mark_notification_read"
     /\ \E n \in Requested(last'.pk) : n.user # last'.actor)
    => /\ last'.result = "NotFound"
       /\ StatusCode(last'.op, last'.result) = 404
       /\ notifications' = notifications

\* C13: a mark-read request for a notification that belongs to another user is
\* answered NotFound (404) and leaves that notification's is_read and every
\* other notification unchanged.
C13_MarkReadForeign == [][C13_Step]_vars

\* C13 witness: bob asked to mark alice's unread notification, was answered
\* NotFound, and the notification is still unread.
C13_Witness ==
    /\ last.op = "mark_notification_read"
    /\ last.actor = "bob"
    /\ last.result = "NotFound"
    /\ \E n \in Requested(last.pk) : n.user = "alice" /\ ~n.is_read

\* the redirect target the request is to answer with
RedirectTarget(n) ==
    IF n.related_task # NoId THEN TaskDetailUrl(tasks[n.related_task].project, n.related_task)
    ELSE IF n.related_project # NoId THEN ProjectDetailUrl(n.related_project)
    ELSE NotificationsUrl

C14_Step ==
    (/\ last'.op = "mark_notification_read"
     /\ \E n \in Requested(last'.pk) : n.user = last'.actor)
    => \E n \in Requested(last'.pk) :
        /\ last'.result = "ok"
        /\ notifications' = (notifications \ {n}) \cup {[n EXCEPT !.is_read = TRUE]}
        /\ last'.location = RedirectTarget(n)

\* C14: a mark-read request for the caller's own notification sets is_read,
\* read or unread before, changes nothing else, and redirects to the task's
\* page when related_task is set, else to the project's page when
\* related_project is set, else to the inbox.
C14_MarkReadOwn == [][C14_Step]_vars

\* C15: a Comment created with both project and task, or with neither, is
\* rejected before any fanout: a creation that raises keeps no Comment,
\* Activity or Notification row, and every Comment a step stores references
\* exactly one of project and task.
C15_CommentTargetValidated ==
    [][/\ (last'.op = "Comment.objects.create" /\ last'.result # "ok")
            => UNCHANGED <<comments, activities, notifications>>
       /\ \A c \in comments' \ comments : (c.project # NoId) # (c.task # NoId)]_vars

\* rows of one kind in the activity feed
Feed(action_type) == {a \in activities : a.action_type = action_type}

\* C16: the effects of one mutation are stored together or not at all: as long
\* as nothing is deleted, every stored comment has its comment_added Activity,
\* every task its task_created Activity, and every membership of a user other
\* than the owner its member_added Notification and Activity.
C16_FanoutAllOrNothing ==
    /\ Cardinality(Feed("comment_added")) = Cardinality(comments)
    /\ Cardinality(Feed("task_created")) = Cardinality(DOMAIN tasks)
    /\ \A m \in memberships :
        m.user # projects[m.project].owner
        => /\ \E n \in Inbox(notifications, m.user, "member_added") :
                n.related_project = m.project
           /\ \E a \in Feed("member_added") : a.user = m.user /\ a.project = m.project

\* C17: for every user U and project P, has_project_view_access(U, P) is true
\* exactly when U holds a membership in P (any role) or U is P.owner; a user
\* with no membership who is not the owner resolves to no role and is refused.
C17_ViewIffMemberOrOwner ==
    \A p \in DOMAIN projects : \A u \in users :
        /\ has_project_view_access(u, p)
             <=> (MembershipRows(u, p) # {} \/ u = projects[p].owner)
        /\ (MembershipRows(u, p) = {} /\ u # projects[p].owner)
             => (get_user_role(u, p) = "none" /\ ~has_project_view_access(u, p))

\* C18: for every user U and project P, has_project_edit_access(U, P) and
\* can_assign_task(U, P) are true exactly when U's membership role in P is
\* owner or editor, or U is P.owner.
C18_EditIffRoleOrOwner ==
    \A p \in DOMAIN projects : \A u \in users :
        /\ has_project_edit_access(u, p)
             <=> (\/ \E m \in MembershipRows(u, p) : m.role \in {"owner", "editor"}
                  \/ u = projects[p].owner)
        /\ can_assign_task(u, p)
             <=> (\/ \E m \in MembershipRows(u, p) : m.role \in {"owner", "editor"}
                  \/ u = projects[p].owner)

\* the requests whose INSERT this step attempts
Written == {s \in DOMAIN pending \ DOMAIN pending' : TRUE}

\* C19: there is at most one membership row per (project, user), also when two
\* add-member requests for the same user and project both pass the form's check
\* before either writes; the request that writes second adds no row and
\* triggers no fanout.
C19_OneMembershipPerPair ==
    [][/\ \A p \in DOMAIN projects' : \A u \in users :
            Cardinality({m \in memberships' : m.project = p /\ m.user = u}) <= 1
       /\ \A s \in Written :
            MembershipRows(pending[s].user, pending[s].project) # {}
            => UNCHANGED <<memberships, notifications, activities>>]_vars

\* C19 witness: a request that had passed the form's check lost the race: its
\* INSERT raised IntegrityError and the user holds one membership.
C19_Witness ==
    /\ last.op = "manage_members"
    /\ last.result = "IntegrityError"
    /\ \E p \in DOMAIN projects : \E u \in users :
        Cardinality(MembershipRows(u, p)) = 1

\* the Activity rows of one kind that a step inserted
Appended(action_type) == {a \in NewActivities : a.action_type = action_type}

\* the project a file or comment row of the next state belongs to
ProjectOfRow(r) == IF r.project # NoId THEN r.project ELSE tasks'[r.task].project

\* C20: a step appends exactly one Activity per project, task, comment and file
\* that it creates, on the affected project and with the owner, the task's
\* creator (the project's owner when there is none), the comment's author and
\* the uploader as actor; a step that creates none of them (a re-save) appends
\* no such Activity; and no existing Activity row is changed or removed.
C20_OneActivityPerCreation ==
    [][/\ activities \subseteq activities'
       /\ Cardinality(Appended("project_created"))
            = Cardinality(DOMAIN projects' \ DOMAIN projects)
       /\ Cardinality(Appended("task_created")) = Cardinality(DOMAIN tasks' \ DOMAIN tasks)
       /\ Cardinality(Appended("comment_added")) = Cardinality(comments' \ comments)
       /\ Cardinality(Appended("file_uploaded")) = Cardinality(files' \ files)
       /\ \A p \in DOMAIN projects' \ DOMAIN projects :
            \E a \in Appended("project_created") :
                a.project = p /\ a.user = projects'[p].owner
       /\ \A t \in DOMAIN tasks' \ DOMAIN tasks :
            \E a \in Appended("task_created") :
                /\ a.project = tasks'[t].project
                /\ a.user = IF tasks'[t].created_by # NoUser
                            THEN tasks'[t].created_by
                            ELSE projects'[tasks'[t].project].owner
       /\ \A c \in comments' \ comments :
            \E a \in Appended("comment_added") :
                a.project = ProjectOfRow(c) /\ a.user = c.user
       /\ \A f \in files' \ files :
            \E a \in Appended("file_uploaded") :
                a.project = ProjectOfRow(f) /\ a.user = f.uploaded_by]_vars

\* C21: a notification, once created, exists in every later state: no step
\* (task deletion, membership removal, marking read, ...) removes it.
C21_NotificationKept ==
    [][NotificationPks(notifications) \subseteq NotificationPks(notifications')]_vars

\* the row that a step leaves under the primary key of notification n
Later(n) == CHOOSE m \in notifications' : m.id = n.id

\* C22: a notification is created unread; afterwards only its is_read field
\* changes, only from false to true, and only by mark_notification_read of its
\* own recipient; no other step changes a stored notification.
C22_Step ==
    /\ \A n \in notifications' :
        n.id \notin NotificationPks(notifications) => ~n.is_read
    /\ \A n \in notifications :
        (n.id \in NotificationPks(notifications') /\ Later(n) # n)
        => /\ Later(n) = [n EXCEPT !.is_read = TRUE]
           /\ ~n.is_read
           /\ last'.op = "mark_notification_read"
           /\ last'.actor = n.user

C22_OnlyRecipientMarksRead == [][C22_Step]_vars

\* C22 witness: a notification that its recipient marked read is marked again,
\* other notifications have been created since, and it is still read.
C22_Witness ==
    /\ last.op = "mark_notification_read"
    /\ last.result = "ok"
    /\ \E n \in notifications :
        /\ n.id = last.pk
        /\ n.is_read
        /\ n.user = last.actor
        /\ \E m \in notifications : m.id > n.id /\ ~m.is_read

\* the sessions whose dedupe query for `user` found no row and whose write is
\* still to come
ReadBeforeWrite(user) ==
    {s \in DOMAIN pending : pending[s].write /\ Username(user) = Head(pending[s].rest)}

\* C23: a member gets a second mention notification of one author on one
\* project only from a request whose dedupe query ran before the write of the
\* first; a comment creation that runs from its query to its write without
\* another in between (any serial order) adds none.
C23_Step ==
    \A n \in NewNotifications :
        (n.notification_type = "mention" /\ \E m \in notifications :
            /\ m.notification_type = "mention"
            /\ m.user = n.user
            /\ m.related_project = n.related_project
            /\ m.related_task = n.related_task
            /\ m.message = n.message)
        => /\ last'.result = "written"
           /\ \E s \in ReadBeforeWrite(n.user) : s \notin ReadBeforeWrite(n.user)'

C23_DuplicateOnlyByRace == [][C23_Step]_vars

\* C23 witness: both requests of alice ran their dedupe query before either
\* wrote, and bob holds two mention notifications of alice on the project.
C23_Witness ==
    /\ last.result = "written"
    /\ Cardinality(ProjectMentions("bob", "alice", 1)) = 2

\* the maximal runs of word characters that immediately follow an '@'
MaximalRuns(text) ==
    {SubSeq(text, i + 1, j) : <<i, j>> \in
        {<<i, j>> \in (1..Len(text)) \X (1..Len(text)) :
            /\ text[i] = "@"
            /\ j > i
            /\ \A k \in (i + 1)..j : text[k] \in WordChars
            /\ (j = Len(text) \/ text[j + 1] \notin WordChars)}}

\* C24: the tokens that re.findall extracts from a comment text are exactly the
\* maximal runs of word characters that immediately follow an '@', and the
\* comment creates at most one mention notification per recipient.
C24_Step ==
    /\ \A c \in comments' \ comments :
        SeqRange(FindAllMentions(c.text)) = MaximalRuns(c.text)
    /\ \A u \in users :
        Cardinality(Inbox(NewNotifications, u, "mention")) <= 1

C24_MentionTokens == [][C24_Step]_vars

\* C24 witness: alice posted "@bobby" with bob a member: the token is bobby
\* and bob holds no mention notification.
C24_Witness ==
    /\ is_project_member("bob", 1)
    /\ \E c \in comments :
        /\ c.text = <<"@","b","o","b","b","y">>
        /\ FindAllMentions(c.text) = <<<<"b","o","b","b","y">>>>
    /\ Inbox(notifications, "bob", "mention") = {}

\* membership rows that a step inserted, deleted or replaced
TouchedMemberships ==
    (memberships' \ memberships) \cup (memberships \ memberships')

\* C25: an add-member, remove-member or change-role request changes
\* memberships and creates notifications and activities only in projects whose
\* owner field is the requester; and no such request removes or changes the
\* membership of the project's owner.
C25_Step ==
    last'.op \in {"manage_members", "remove_member", "change_member_role"}
    => /\ \A m \in TouchedMemberships : projects[m.project].owner = last'.actor
       /\ \A n \in NewNotifications : projects[n.related_project].owner = last'.actor
       /\ \A a \in NewActivities : projects[a.project].owner = last'.actor
       /\ \A m \in memberships : m.user = projects[m.project].owner => m \in memberships'

C25_OnlyOwnerManagesMembers == [][C25_Step]_vars

\* C25 witness: a member whose membership role is 'owner', but who is not the
\* project's owner, asked for a membership change and was refused, while the
\* owner holds the own membership.
C25_Witness ==
    /\ last.op \in {"manage_members", "remove_member", "change_member_role"}
    /\ last.result = "denied"
    /\ \E p \in DOMAIN projects :
        /\ last.actor # projects[p].owner
        /\ get_user_role(last.actor, p) = "owner"
        /\ get_user_role(projects[p].owner, p) = "owner"

C27_AssigneeIsMember ==
    \A t \in DOMAIN tasks : \A u \in tasks[t].assignees :
        is_project_member(u, tasks[t].project)

\* C28: a project comment of author A that names member R creates a mention
\* notification for R unless R already holds one that a comment of A on that
\* project produced; a notification that another author's comment produced
\* suppresses nothing.
C28_Step ==
    \A c \in comments' \ comments :
        (c.project # NoId /\ c.task = NoId)
        => \A u \in Mentionable(c) :
              ProjectMentions(u, c.user, c.project) = {}
              => \E n \in NewNotifications :
                    /\ n.user = u
                    /\ n.notification_type = "mention"
                    /\ n.message = MentionMessage(c.user)

C28_SuppressedOnlyBySameAuthor == [][C28_Step]_vars

\* C29: once a member holds a mention notification of an author on a project,
\* a later comment of that author on the project that names the member creates
\* no other, whatever its text and whether or not the notification was read:
\* the count stays at one as long as the project exists.
C29_Step ==
    \A p \in DOMAIN projects \cap DOMAIN projects' : \A u \in users : \A a \in users :
        Cardinality(ProjectMentions(u, a, p)) = 1
        => Cardinality(ProjectMentions(u, a, p)') = 1

C30_Step ==
    last'.op \in {"add_project_comment", "add_task_comment"}
    => /\ \A c \in comments' \ comments :
            \/ is_project_member(c.user, ProjectOfComment(c))
            \/ is_project_owner(c.user, ProjectOfComment(c))
       /\ \A a \in NewActivities :
            \/ is_project_member(a.user, a.project)
            \/ is_project_owner(a.user, a.project)
       /\ (\A p \in DOMAIN projects :
              ~is_project_member(last'.actor, p) /\ ~is_project_owner(last'.actor, p))
            => NewNotifications = {}

C30_CommentByMemberOnly == [][C30_Step]_vars

====
